---- MODULE Spec2Model ----
(***************************************************************************)
(* A model of three parts of banyan:                                       *)
(*   - the CompactSeq trait and SimpleCompactSeq      (banyan/src/index.rs) *)
(*   - the index block codec, serialize_compressed and                      *)
(*     deserialize_compressed                          (banyan/src/index.rs) *)
(*   - SqliteStore / SqliteStoreWrite    (banyan-stream-manager/sqlite.rs)  *)
(*   - the forest read path exercised by banyan-utils/tests/ops_counting.rs *)
(* Each part has its own variables, initial predicate, next-state relation  *)
(* and specification; a part's specification leaves the other parts'        *)
(* variables at their initial values.                                       *)
(***************************************************************************)
EXTENDS Integers, Sequences, FiniteSets, TLC

VARIABLES
    \* ---- CompactSeq
    cs,         \* the Vec<T> inside the SimpleCompactSeq
    csState,    \* "none" | "live" | "error" | "panic"
    ctor,       \* constructor that made cs: "none" | "empty" | "single" | "new"
    supplied,   \* every item handed to the constructor, push and extend, in call order
    lastCall,   \* the last call: [op, item, before, ret]
    nCalls,     \* number of push / extend calls so far
    \* ---- index block codec
    key,        \* Secrets.index_key
    nonce,      \* the nonce handed to serialize_compressed
    items,      \* the &[Index<T>] handed to serialize_compressed
    block,      \* the bytes of the index block (`into`, later `ipld`)
    origin,     \* "none" | "serialized" | "foreign": who wrote the block
    foreign,    \* for a foreign block: what its writer put into it
    decoded,    \* the Result of deserialize_compressed
    cpc,        \* "input" | "start" | "block" | "done"
    \* ---- SqliteStore / SqliteStoreWrite
    storeLock,  \* holder of the Mutex<BlockStore>: a thread, or NoThread
    blocks,     \* BlockStore: cid -> Option<data>
    pins,       \* BlockStore: temp pin -> [alive, cids]
    writers,    \* SqliteStoreWrite by id: [state, pin, written, wlock]
    thr,        \* per thread: [pc, w, data, link]: the call it is in
    okPuts,     \* per writer: the digests that put returned in Ok
    consumed,   \* per writer: what into_written returned
    lastPut,    \* per thread: the outcome of its last put
    lastGet,    \* per thread: the outcome of its last get
    nStoreCalls, \* calls made so far
    \* ---- forest read path (ops_counting.rs)
    events,     \* the events the builder was extended with, in order
    root,       \* the builder's root: Option<Index>
    mstore,     \* MemStore: link -> block
    reads,      \* OpsCountingStore.reads
    lastQuery,  \* the last collect / iter_filtered on the current tree: [q, items, gets, fetched]
    prevQuery   \* the one before it on the same tree

seqVars == <<cs, csState, ctor, supplied, lastCall, nCalls>>
codecVars == <<key, nonce, items, block, origin, foreign, decoded, cpc>>
storeVars == <<storeLock, blocks, pins, writers, thr, okPuts, consumed, lastPut, lastGet,
               nStoreCalls>>

treeVars == <<events, root, mstore, reads, lastQuery, prevQuery>>

vars == <<seqVars, codecVars, storeVars, treeVars>>

\* what each part leaves alone
notSeq == <<codecVars, storeVars, treeVars>>
notCodec == <<seqVars, storeVars, treeVars>>
notStore == <<seqVars, codecVars, treeVars>>
notTree == <<seqVars, codecVars, storeVars>>

(***************************************************************************)
(* Option<T>                                                               *)
(***************************************************************************)
None == [some |-> FALSE]
Some(x) == [some |-> TRUE, val |-> x]
is_some(o) == o.some
is_none(o) == ~o.some

\* Result<T>
Ok(v) == [ok |-> TRUE, val |-> v]
Err(e) == [ok |-> FALSE, err |-> e]

(***************************************************************************)
(* SqliteStore(Arc<Mutex<BlockStore>>) and SqliteStoreWrite                *)
(***************************************************************************)
Threads == {"t1", "t2"}
NoThread == "none"
WriterIds == {1, 2}

\* the blocks the threads put, and one that nobody puts
Data == {<<1>>, <<2, 3>>}
NeverPut == <<9>>

\* Sha256Digest::new: a content hash, one digest per block of the model
RECURSIVE digest_loop(_, _, _)
digest_loop(data, i, h) ==
    IF i > Len(data) THEN h ELSE digest_loop(data, i + 1, (h * 31 + data[i] + 1) % 251)

Sha256Digest_new(data) == digest_loop(data, 1, 7)

Digests == {Sha256Digest_new(d) : d \in Data \cup {NeverPut}}

\* Cid::from(Sha256Digest): the digest under a fixed codec
Cid_from(link) == [codec |-> "dag-cbor", hash |-> link]

Cids == {Cid_from(l) : l \in Digests}

\* BlockStore::temp_pin: a fresh, empty, alive pin
temp_pin(ps, id) == [ps EXCEPT ![id] = [alive |-> TRUE, cids |-> {}]]

\* BlockStore::put_block(&block, pin): store the block, add its cid to the pin
put_block(bl, ps, cid, data, pin) ==
    [blocks |-> [bl EXCEPT ![cid] = Some(data)],
     pins |-> IF is_some(pin)
              THEN [ps EXCEPT ![pin.val].cids = @ \cup {cid}]
              ELSE ps]

\* BlockStore::get_block
get_block(bl, cid) == bl[cid]

\* BlockStore garbage collection: a block stays while an alive temp pin holds it
gc(bl, ps) ==
    [c \in DOMAIN bl |->
        IF \E p \in DOMAIN ps : ps[p].alive /\ c \in ps[p].cids THEN bl[c] ELSE None]

\* drop(TempPin)
drop_pin(ps, id) == [ps EXCEPT ![id].alive = FALSE]

\* SqliteStoreWrite::put, the store write: put_block(&block, Some(&self.pin))
Mut_put_store_unpinned(bl, ps, w, cid, data) == put_block(bl, ps, cid, data, None)
put_store(bl, ps, w, cid, data) == put_block(bl, ps, cid, data, Some(w.pin))

\* SqliteStoreWrite::put, after the store write: `?` returns the error, else on
\* to the written set
Mut_put_ignores_error(stored) == "put_wlock"
put_after_store(stored) == IF stored THEN "put_wlock" ELSE "put_failed"

\* SqliteStore::get, after the store read: [ok, val | err]
get_result(read) ==
    IF ~read.ok THEN read
    ELSE IF is_some(read.val) THEN Ok(read.val.val)
    ELSE Err("block not found!")

IdleThread == [pc |-> "idle", w |-> 0, data |-> <<>>, link |-> 0]
NoPut == [done |-> FALSE]
NoGet == [done |-> FALSE]
Unborn == [state |-> "unborn", pin |-> 0, written |-> {}, wlock |-> NoThread]

(***************************************************************************)
(* The state of a part that is not running                                 *)
(***************************************************************************)
NoCall == [op |-> "none", item |-> <<>>, before |-> <<>>]

SeqIdle ==
    /\ cs = <<>>
    /\ csState = "none"
    /\ ctor = "none"
    /\ supplied = <<>>
    /\ lastCall = NoCall
    /\ nCalls = 0

NoForeign == [cids |-> <<>>, second |-> [k |-> "none"]]
NotDecoded == [ok |-> FALSE, err |-> "not called"]

CodecIdle ==
    /\ key = <<>>
    /\ nonce = <<>>
    /\ items = <<>>
    /\ block = <<>>
    /\ origin = "none"
    /\ foreign = NoForeign
    /\ decoded = NotDecoded
    /\ cpc = "idle"

StoreIdle ==
    /\ storeLock = NoThread
    /\ blocks = <<>>
    /\ pins = <<>>
    /\ writers = <<>>
    /\ thr = <<>>
    /\ okPuts = <<>>
    /\ consumed = <<>>
    /\ lastPut = <<>>
    /\ lastGet = <<>>
    /\ nStoreCalls = 0

NoQuery == [q |-> [t |-> "none", a |-> 0, b |-> 0], items |-> <<>>, gets |-> 0, fetched |-> <<>>]

TreeIdle ==
    /\ events = <<>>
    /\ root = None
    /\ mstore = <<>>
    /\ reads = 0
    /\ lastQuery = NoQuery
    /\ prevQuery = NoQuery

(***************************************************************************)
(* Bounds                                                                  *)
(***************************************************************************)
\* push / extend calls made on one CompactSeq
MaxSeqCalls == 4
\* length of the iterator handed to CompactSeq::new
MaxIterLen == 2
\* indices in one index block written by serialize_compressed
MaxItems == 2
\* records in an index block written by another writer
MaxForeignRecords == 1
\* calls of write, put and get made on one SqliteStore
MaxStoreCalls == 4
\* events a builder is extended with
MaxEvents == 5
\* Config: events per leaf, children per branch
MaxLeafCount == 2
MaxBranchCount == 2

(***************************************************************************)
(* Semigroup: the item type of the model is the free semigroup over two    *)
(* letters, combine is concatenation (associative, not commutative).       *)
(***************************************************************************)
Letters == {1, 2}
SuppliedItems == {<<l>> : l \in Letters}

combine(a, b) == a \o b

(***************************************************************************)
(* SimpleCompactSeq<T>(Vec<T>)                                             *)
(***************************************************************************)
SimpleCompactSeq_empty == <<>>

SimpleCompactSeq_single(item) == <<item>>

SimpleCompactSeq_push(self, item) == Append(self, item)

\* self.0.last_mut().unwrap().combine(item): the caller models the panic of
\* unwrap() on an empty Vec; this is the non-empty case.
Mut_extend_swapped(self, item) == [self EXCEPT ![Len(self)] = combine(item, self[Len(self)])]
SimpleCompactSeq_extend(self, item) == [self EXCEPT ![Len(self)] = combine(self[Len(self)], item)]

\* index is 0-based as in the source
Mut_get_mirrored(self, index) ==
    IF index >= 0 /\ index < Len(self) THEN Some(self[Len(self) - index]) ELSE None
SimpleCompactSeq_get(self, index) ==
    IF index >= 0 /\ index < Len(self) THEN Some(self[index + 1]) ELSE None

SimpleCompactSeq_count(self) == Len(self)

\* let mut res = self.0[0].clone(); for i in 1..len { res.combine(&self.0[i]) }
RECURSIVE summarize_loop(_, _, _)
summarize_loop(self, i, res) ==
    IF i >= Len(self) THEN res
    ELSE summarize_loop(self, i + 1, combine(res, self[i + 1]))

SimpleCompactSeq_summarize(self) == summarize_loop(self, 1, self[1])

\* CompactSeq::new: Err on an empty iterator, else single(first) and push the rest
RECURSIVE new_loop(_, _, _)
new_loop(result, iter, i) ==
    IF i > Len(iter) THEN result
    ELSE new_loop(SimpleCompactSeq_push(result, iter[i]), iter, i + 1)

CompactSeq_new(iter) ==
    IF Len(iter) = 0
    THEN [ok |-> FALSE, err |-> "iterator must have at least one item"]
    ELSE [ok |-> TRUE, val |-> new_loop(SimpleCompactSeq_single(iter[1]), iter, 2)]

(***************************************************************************)
(* Index, IndexWC, IndexRC                                                 *)
(***************************************************************************)
LeafIndex(sealed, cid, keys, value_bytes) ==
    [kind |-> "Leaf", sealed |-> sealed, cid |-> cid, keys |-> keys,
     value_bytes |-> value_bytes]

BranchIndex(count, level, sealed, cid, summaries, value_bytes, key_bytes) ==
    [kind |-> "Branch", count |-> count, level |-> level, sealed |-> sealed,
     cid |-> cid, summaries |-> summaries, value_bytes |-> value_bytes,
     key_bytes |-> key_bytes]

\* impl From<&Index<T>> for IndexWC
IndexWC_from(value) ==
    IF value.kind = "Branch"
    THEN [sealed |-> value.sealed, purged |-> is_none(value.cid), data |-> value.summaries,
          value_bytes |-> value.value_bytes, count |-> Some(value.count),
          level |-> Some(value.level), key_bytes |-> Some(value.key_bytes)]
    ELSE [sealed |-> value.sealed, purged |-> is_none(value.cid), data |-> value.keys,
          value_bytes |-> value.value_bytes, count |-> None, level |-> None,
          key_bytes |-> None]

\* VecDeque::pop_front: [front, rest]
pop_front(cids) ==
    IF Len(cids) = 0 THEN [front |-> None, rest |-> cids]
    ELSE [front |-> Some(Head(cids)), rest |-> Tail(cids)]

\* IndexRC::to_index(self, cids: &mut VecDeque): [index, cids] with cids as left behind
Mut_to_index_pop_always(self, cids) ==
    LET popped == pop_front(cids)
        cid == popped.front
        rest == popped.rest
    IN  IF is_some(self.level) /\ is_some(self.count) /\ is_some(self.key_bytes)
        THEN [index |-> BranchIndex(self.count.val, self.level.val, self.sealed, cid,
                                    self.data, self.value_bytes, self.key_bytes.val),
              cids |-> rest]
        ELSE [index |-> LeafIndex(self.sealed, cid, self.data, self.value_bytes),
              cids |-> rest]
to_index(self, cids) ==
    LET popped == IF ~self.purged THEN pop_front(cids) ELSE [front |-> None, rest |-> cids]
        cid == popped.front
        rest == popped.rest
    IN  IF is_some(self.level) /\ is_some(self.count) /\ is_some(self.key_bytes)
        THEN [index |-> BranchIndex(self.count.val, self.level.val, self.sealed, cid,
                                    self.data, self.value_bytes, self.key_bytes.val),
              cids |-> rest]
        ELSE [index |-> LeafIndex(self.sealed, cid, self.data, self.value_bytes),
              cids |-> rest]

(***************************************************************************)
(* serde_cbor, as far as the codec uses it.  Unsigned integers of the      *)
(* model are below 24 and take one byte; a struct is a map whose keys are  *)
(* text strings, abbreviated here to the field name's first letter.        *)
(***************************************************************************)
EncU(n) == <<n>>
EncBool(b) == IF b THEN <<245>> ELSE <<244>>
EncOptU(o) == IF is_some(o) THEN EncU(o.val) ELSE <<246>>
EncField(name) ==
    <<97, CASE name = "count" -> 99 [] name = "level" -> 108 [] name = "key_bytes" -> 107
            [] name = "value_bytes" -> 118 [] name = "sealed" -> 115
            [] name = "purged" -> 112 [] name = "data" -> 100>>
EncSeq(data) == <<128 + Len(data)>> \o data

\* #[derive(Serialize)] struct IndexWC: the fields in declaration order
EncIndexWC(w) ==
    <<167>> \o EncField("count") \o EncOptU(w.count)
            \o EncField("level") \o EncOptU(w.level)
            \o EncField("key_bytes") \o EncOptU(w.key_bytes)
            \o EncField("value_bytes") \o EncU(w.value_bytes)
            \o EncField("sealed") \o EncBool(w.sealed)
            \o EncField("purged") \o EncBool(w.purged)
            \o EncField("data") \o EncSeq(w.data)

FieldNames == {"count", "level", "key_bytes", "value_bytes", "sealed", "purged", "data"}
OptionFields == {"count", "level", "key_bytes"}

\* one field value at b[p]: [ok, val, pos]
DecValue(name, b, p) ==
    IF p > Len(b) THEN [ok |-> FALSE]
    ELSE IF name \in OptionFields
    THEN IF b[p] = 246 THEN [ok |-> TRUE, val |-> None, pos |-> p + 1]
         ELSE IF b[p] < 24 THEN [ok |-> TRUE, val |-> Some(b[p]), pos |-> p + 1]
         ELSE [ok |-> FALSE]
    ELSE IF name = "value_bytes"
    THEN IF b[p] < 24 THEN [ok |-> TRUE, val |-> b[p], pos |-> p + 1] ELSE [ok |-> FALSE]
    ELSE IF name \in {"sealed", "purged"}
    THEN IF b[p] \in {244, 245} THEN [ok |-> TRUE, val |-> (b[p] = 245), pos |-> p + 1]
         ELSE [ok |-> FALSE]
    ELSE \* data: an array of unsigned integers
         IF b[p] >= 128 /\ b[p] < 152 /\ p + (b[p] - 128) <= Len(b)
            /\ \A i \in (p + 1)..(p + (b[p] - 128)) : b[i] < 24
         THEN [ok |-> TRUE, val |-> SubSeq(b, p + 1, p + (b[p] - 128)),
               pos |-> p + (b[p] - 128) + 1]
         ELSE [ok |-> FALSE]

\* #[derive(Deserialize)] struct IndexRC, visit_map: `left` entries to read, `seen`
\* maps the fields read so far to their values.  A repeated field is an error.
RECURSIVE DecFields(_, _, _, _)
DecFields(b, p, left, seen) ==
    IF left = 0 THEN [ok |-> TRUE, val |-> seen, pos |-> p]
    ELSE IF p + 1 > Len(b) \/ b[p] # 97 THEN [ok |-> FALSE]
    ELSE LET names == {n \in FieldNames : EncField(n) = <<97, b[p + 1]>>} IN
         IF names = {} THEN [ok |-> FALSE]
         ELSE LET name == CHOOSE n \in names : TRUE
                  v == DecValue(name, b, p + 2)
              IN  IF name \in DOMAIN seen \/ ~v.ok THEN [ok |-> FALSE]
                  ELSE DecFields(b, v.pos, left - 1, seen @@ (name :> v.val))

\* one IndexRC at b[p]: a map of 7 entries; an absent Option field is None, an
\* absent field of another type is an error
DecIndexRC(b, p) ==
    IF p > Len(b) \/ b[p] # 167 THEN [ok |-> FALSE]
    ELSE LET f == DecFields(b, p + 1, 7, <<>>) IN
         IF ~f.ok \/ ~((FieldNames \ OptionFields) \subseteq DOMAIN f.val) THEN [ok |-> FALSE]
         ELSE LET opt(n) == IF n \in DOMAIN f.val THEN f.val[n] ELSE None IN
              [ok |-> TRUE, pos |-> f.pos,
               val |-> [sealed |-> f.val["sealed"], purged |-> f.val["purged"],
                        data |-> f.val["data"], count |-> opt("count"),
                        level |-> opt("level"), value_bytes |-> f.val["value_bytes"],
                        key_bytes |-> opt("key_bytes")]]

CBOR_ARRAY_START == 159
CBOR_BREAK == 255

\* Vec<IndexRC> from an indefinite-length array that fills b: records up to the break
RECURSIVE DecRecords(_, _, _)
DecRecords(b, p, acc) ==
    IF p > Len(b) THEN Err("cbor: unexpected end of input")
    ELSE IF b[p] = CBOR_BREAK
    THEN IF p = Len(b) THEN Ok(acc) ELSE Err("cbor: trailing data")
    ELSE LET r == DecIndexRC(b, p) IN
         IF ~r.ok THEN Err("cbor: invalid record")
         ELSE DecRecords(b, r.pos, Append(acc, r.val))

from_reader_records(b) ==
    IF Len(b) = 0 \/ b[1] # CBOR_ARRAY_START THEN Err("cbor: invalid type")
    ELSE DecRecords(b, 2, <<>>)

\* serde_cbor::Value
Bytes(v) == [t |-> "Bytes", v |-> v]
Text(s) == [t |-> "Text", s |-> s]
Integer(n) == [t |-> "Integer", n |-> n]
Null == [t |-> "Null"]

EncCborValue(x) ==
    CASE x.t = "Bytes" ->
            (IF Len(x.v) < 24 THEN <<64 + Len(x.v)>> ELSE <<88, Len(x.v)>>) \o x.v
      [] x.t = "Text" -> <<96 + Len(x.s)>> \o x.s
      [] x.t = "Integer" -> <<x.n>>
      [] x.t = "Null" -> <<246>>

\* a Value at b[p]: [ok, val, pos]
DecCborValue(b, p) ==
    IF p > Len(b) THEN [ok |-> FALSE]
    ELSE IF b[p] < 24 THEN [ok |-> TRUE, val |-> Integer(b[p]), pos |-> p + 1]
    ELSE IF b[p] = 246 THEN [ok |-> TRUE, val |-> Null, pos |-> p + 1]
    ELSE IF b[p] >= 64 /\ b[p] < 88 /\ p + (b[p] - 64) <= Len(b)
    THEN [ok |-> TRUE, val |-> Bytes(SubSeq(b, p + 1, p + (b[p] - 64))),
          pos |-> p + (b[p] - 64) + 1]
    ELSE IF b[p] = 88 /\ p + 1 <= Len(b) /\ p + 1 + b[p + 1] <= Len(b)
    THEN [ok |-> TRUE, val |-> Bytes(SubSeq(b, p + 2, p + 1 + b[p + 1])),
          pos |-> p + 2 + b[p + 1]]
    ELSE IF b[p] >= 96 /\ b[p] < 120 /\ p + (b[p] - 96) <= Len(b)
    THEN [ok |-> TRUE, val |-> Text(SubSeq(b, p + 1, p + (b[p] - 96))),
          pos |-> p + (b[p] - 96) + 1]
    ELSE [ok |-> FALSE]

\* serde_cbor::to_writer(into, &(cids, value)): an array of two, the links as
\* unsigned integers
to_writer_pair(cids, value) == <<130>> \o (<<128 + Len(cids)>> \o cids) \o EncCborValue(value)

\* serde_cbor::from_slice::<(VecDeque<Link>, Value)>
from_slice_pair(ipld) ==
    IF Len(ipld) < 2 \/ ipld[1] # 130 \/ ipld[2] < 128 \/ ipld[2] >= 152
    THEN Err("cbor: invalid type")
    ELSE LET n == ipld[2] - 128 IN
         IF 2 + n > Len(ipld) \/ \E i \in 3..(2 + n) : ipld[i] >= 24
         THEN Err("cbor: invalid link")
         ELSE LET v == DecCborValue(ipld, 3 + n) IN
              IF ~v.ok THEN Err("cbor: invalid value")
              ELSE IF v.pos # Len(ipld) + 1 THEN Err("cbor: trailing data")
              ELSE Ok([cids |-> SubSeq(ipld, 3, 2 + n), value |-> v.val])

(***************************************************************************)
(* zstd, reduced to a frame of one raw block: the magic number, the        *)
(* content size and the content.                                           *)
(***************************************************************************)
ZstdMagic == <<40, 181, 47, 253>>

zstd_encode(content) == ZstdMagic \o <<Len(content)>> \o content

zstd_decode(frame) ==
    IF Len(frame) < 5 \/ SubSeq(frame, 1, 4) # ZstdMagic THEN Err("zstd: unknown frame descriptor")
    ELSE IF frame[5] # Len(frame) - 5 THEN Err("zstd: corrupted frame")
    ELSE Ok(SubSeq(frame, 6, Len(frame)))

(***************************************************************************)
(* XSalsa20: a key stream that depends on the key, the nonce and the       *)
(* position, XORed into the buffer.                                        *)
(***************************************************************************)
NonceLen == 24
KeyLen == 32

RECURSIVE Xor(_, _)
Xor(a, b) ==
    IF a = 0 THEN b
    ELSE IF b = 0 THEN a
    ELSE 2 * Xor(a \div 2, b \div 2) + ((a + b) % 2)

KeyStream(k, n, i) ==
    (k[(i % KeyLen) + 1] * 7 + n[(i % NonceLen) + 1] * 13 + i * 31 + 5) % 256

apply_keystream(k, n, buf) ==
    [i \in 1..Len(buf) |-> Xor(buf[i], KeyStream(k, n, i - 1))]

(***************************************************************************)
(* serialize_compressed / deserialize_compressed                           *)
(***************************************************************************)
\* for item in items.iter() { if let Some(cid) = item.cid() { cids.push(cid) }
\*                            to_writer(writer, &IndexWC::from(item)) }
RECURSIVE Mut_serialize_loop_leaf_cids_only(_, _, _, _)
Mut_serialize_loop_leaf_cids_only(its, i, cids, written) ==
    IF i > Len(its) THEN [cids |-> cids, written |-> written]
    ELSE Mut_serialize_loop_leaf_cids_only(its, i + 1,
            IF is_some(its[i].cid) /\ its[i].kind = "Leaf"
            THEN Append(cids, its[i].cid.val) ELSE cids,
            written \o EncIndexWC(IndexWC_from(its[i])))
RECURSIVE serialize_loop(_, _, _, _)
serialize_loop(its, i, cids, written) ==
    IF i > Len(its) THEN [cids |-> cids, written |-> written]
    ELSE serialize_loop(its, i + 1,
            IF is_some(its[i].cid) THEN Append(cids, its[i].cid.val) ELSE cids,
            written \o EncIndexWC(IndexWC_from(its[i])))

\* the bytes left in `into`
serialize_compressed(k, n, its) ==
    LET body == serialize_loop(its, 1, <<>>, <<CBOR_ARRAY_START>>)
        frame == zstd_encode(body.written \o <<CBOR_BREAK>>)
        compressed == n \o apply_keystream(k, n, frame)
    IN  to_writer_pair(body.cids, Bytes(compressed))

\* data.into_iter().map(|data| data.to_index(&mut cids)).collect()
RECURSIVE map_to_index(_, _, _, _)
map_to_index(data, i, cids, result) ==
    IF i > Len(data) THEN result
    ELSE LET r == to_index(data[i], cids) IN
         map_to_index(data, i + 1, r.cids, Append(result, r.index))

\* the branch of deserialize_compressed taken for a byte string that holds a nonce
deserialize_bytes(k, cids, compressed) ==
    LET n == SubSeq(compressed, 1, NonceLen)
        cipher == SubSeq(compressed, NonceLen + 1, Len(compressed))
        reader == zstd_decode(apply_keystream(k, n, cipher))
    IN  IF ~reader.ok THEN reader
        ELSE LET data == from_reader_records(reader.val) IN
             IF ~data.ok THEN data
             ELSE Ok(map_to_index(data.val, 1, cids, <<>>))

Mut_deserialize_nonce_off_by_one(k, ipld) ==
    LET outer == from_slice_pair(ipld) IN
    IF ~outer.ok THEN outer
    ELSE IF outer.val.value.t = "Bytes"
    THEN IF Len(outer.val.value.v) <= NonceLen
         THEN Err("nonce missing")
         ELSE deserialize_bytes(k, outer.val.cids, outer.val.value.v)
    ELSE Err("expected a byte array containing zstd compressed cbor")
deserialize_compressed(k, ipld) ==
    LET outer == from_slice_pair(ipld) IN
    IF ~outer.ok THEN outer
    ELSE IF outer.val.value.t = "Bytes"
    THEN IF Len(outer.val.value.v) < NonceLen
         THEN Err("nonce missing")
         ELSE deserialize_bytes(k, outer.val.cids, outer.val.value.v)
    ELSE Err("expected a byte array containing zstd compressed cbor")

SeqsUpTo(S, n) == UNION {[1..k -> S] : k \in 0..n}

SeqEmpty ==
    /\ csState = "none"
    /\ cs' = SimpleCompactSeq_empty
    /\ csState' = "live"
    /\ ctor' = "empty"
    /\ UNCHANGED <<supplied, lastCall, nCalls>>
    /\ UNCHANGED notSeq

SeqSingle ==
    /\ csState = "none"
    /\ \E item \in SuppliedItems :
        /\ cs' = SimpleCompactSeq_single(item)
        /\ supplied' = <<item>>
    /\ csState' = "live"
    /\ ctor' = "single"
    /\ UNCHANGED <<lastCall, nCalls>>
    /\ UNCHANGED notSeq

SeqNew ==
    /\ csState = "none"
    /\ \E iter \in SeqsUpTo(SuppliedItems, MaxIterLen) :
        LET r == CompactSeq_new(iter) IN
        /\ cs' = IF r.ok THEN r.val ELSE <<>>
        /\ csState' = IF r.ok THEN "live" ELSE "error"
        /\ supplied' = iter
    /\ ctor' = "new"
    /\ UNCHANGED <<lastCall, nCalls>>
    /\ UNCHANGED notSeq

SeqPush ==
    /\ csState = "live"
    /\ nCalls < MaxSeqCalls
    /\ \E item \in SuppliedItems :
        /\ cs' = SimpleCompactSeq_push(cs, item)
        /\ supplied' = Append(supplied, item)
        /\ lastCall' = [op |-> "push", item |-> item, before |-> cs]
    /\ nCalls' = nCalls + 1
    /\ UNCHANGED <<csState, ctor>>
    /\ UNCHANGED notSeq

SeqExtend ==
    /\ csState = "live"
    /\ nCalls < MaxSeqCalls
    /\ \E item \in SuppliedItems :
        /\ supplied' = Append(supplied, item)
        /\ lastCall' = [op |-> "extend", item |-> item, before |-> cs]
        /\ IF Len(cs) = 0
           THEN csState' = "panic" /\ cs' = cs      \* last_mut() is None: unwrap panics
           ELSE csState' = csState /\ cs' = SimpleCompactSeq_extend(cs, item)
    /\ nCalls' = nCalls + 1
    /\ UNCHANGED <<ctor>>
    /\ UNCHANGED notSeq

SeqInit == SeqIdle /\ CodecIdle /\ StoreIdle /\ TreeIdle

SeqNext == SeqEmpty \/ SeqSingle \/ SeqNew \/ SeqPush \/ SeqExtend

SeqSpec == SeqInit /\ [][SeqNext]_vars

(***************************************************************************)
(* The codec as a state machine: a block is either written by              *)
(* serialize_compressed from `items`, or received from another writer;     *)
(* deserialize_compressed then reads it.                                   *)
(***************************************************************************)
Links == {1, 2}

\* well-formed indices: every kind, sealed or not, purged (cid = None) or not
LeafIndices ==
    {LeafIndex(sealed, cid, IF sealed THEN <<1, 2>> ELSE <<3>>, IF sealed THEN 5 ELSE 0) :
        sealed \in BOOLEAN, cid \in {None} \cup {Some(l) : l \in Links}}

BranchIndices ==
    {BranchIndex(IF sealed THEN 3 ELSE 0, IF is_some(cid) THEN 1 ELSE 2, sealed, cid,
                 IF sealed THEN <<4>> ELSE <<5, 6>>, IF sealed THEN 0 ELSE 7,
                 IF sealed THEN 0 ELSE 4) :
        sealed \in BOOLEAN, cid \in {None} \cup {Some(l) : l \in Links}}

Indices == LeafIndices \cup BranchIndices

\* Secrets.index_key with a nonce
Secrets ==
    {[key |-> [i \in 1..KeyLen |-> 17], nonce |-> [i \in 1..NonceLen |-> 0]],
     [key |-> [i \in 1..KeyLen |-> (i * 37) % 256], nonce |-> [i \in 1..NonceLen |-> 100 + i]]}

\* records another writer may put into a block: the three branch fields present
\* or absent independently of each other
ForeignRecords ==
    {[sealed |-> TRUE, purged |-> purged, data |-> <<1>>, value_bytes |-> 5,
      count |-> count, level |-> level, key_bytes |-> key_bytes] :
        purged \in BOOLEAN, count \in {None, Some(0)}, level \in {None, Some(1)},
        key_bytes \in {None, Some(4)}}

ForeignCids == {<<>>, <<1>>, <<2, 1>>}

\* what another writer may put in the second element of the outer pair
ForeignSeconds ==
    {[k |-> "frame", recs |-> recs] : recs \in SeqsUpTo(ForeignRecords, MaxForeignRecords)}
    \cup {[k |-> "nonce_prefix", n |-> n] : n \in 0..NonceLen}
    \cup {[k |-> "text"], [k |-> "integer"], [k |-> "null"]}

RECURSIVE EncRecords(_, _)
EncRecords(recs, i) ==
    IF i > Len(recs) THEN <<>> ELSE EncIndexWC(recs[i]) \o EncRecords(recs, i + 1)

ForeignValue(k, n, second) ==
    CASE second.k = "frame" ->
            Bytes(n \o apply_keystream(k, n,
                    zstd_encode(<<CBOR_ARRAY_START>> \o EncRecords(second.recs, 1)
                                \o <<CBOR_BREAK>>)))
      [] second.k = "nonce_prefix" -> Bytes(SubSeq(n, 1, second.n))
      [] second.k = "text" -> Text(<<122, 115, 116, 100>>)
      [] second.k = "integer" -> Integer(7)
      [] second.k = "null" -> Null

CodecInit ==
    /\ \E s \in Secrets : key = s.key /\ nonce = s.nonce
    /\ \/ cpc = "input" /\ items \in SeqsUpTo(Indices, MaxItems)
       \/ cpc = "start" /\ items = <<>>
    /\ block = <<>>
    /\ origin = "none"
    /\ foreign = NoForeign
    /\ decoded = NotDecoded
    /\ SeqIdle
    /\ StoreIdle
    /\ TreeIdle

SerializeCompressed ==
    /\ cpc = "input"
    /\ block' = serialize_compressed(key, nonce, items)
    /\ origin' = "serialized"
    /\ cpc' = "block"
    /\ UNCHANGED <<key, nonce, items, foreign, decoded>>
    /\ UNCHANGED notCodec

ReceiveBlock ==
    /\ cpc = "start"
    /\ \E cids \in ForeignCids, second \in ForeignSeconds :
        /\ block' = to_writer_pair(cids, ForeignValue(key, nonce, second))
        /\ foreign' = [cids |-> cids, second |-> second]
    /\ origin' = "foreign"
    /\ cpc' = "block"
    /\ UNCHANGED <<key, nonce, items, decoded>>
    /\ UNCHANGED notCodec

DeserializeCompressed ==
    /\ cpc = "block"
    /\ decoded' = deserialize_compressed(key, block)
    /\ cpc' = "done"
    /\ UNCHANGED <<key, nonce, items, block, origin, foreign>>
    /\ UNCHANGED notCodec

CodecNext == SerializeCompressed \/ ReceiveBlock \/ DeserializeCompressed

CodecSpec == CodecInit /\ [][CodecNext]_vars

(***************************************************************************)
(* SqliteStore and SqliteStoreWrite as a state machine: threads share one  *)
(* store and its writers and call write, put and get; the owner of a       *)
(* writer consumes it with into_written or drops it; the block store       *)
(* collects unpinned blocks.                                               *)
(***************************************************************************)
StoreInit ==
    /\ storeLock = NoThread
    /\ \E kept \in {{}, {<<1>>}} :
        blocks = [c \in Cids |->
                    IF \E d \in kept : c = Cid_from(Sha256Digest_new(d))
                    THEN Some(CHOOSE d \in kept : c = Cid_from(Sha256Digest_new(d)))
                    ELSE None]
    /\ pins = [p \in WriterIds |-> [alive |-> FALSE, cids |-> {}]]
    /\ writers = [w \in WriterIds |-> Unborn]
    /\ thr = [t \in Threads |-> IdleThread]
    /\ okPuts = [w \in WriterIds |-> {}]
    /\ consumed = [w \in WriterIds |-> None]
    /\ lastPut = [t \in Threads |-> NoPut]
    /\ lastGet = [t \in Threads |-> NoGet]
    /\ nStoreCalls = 0
    /\ SeqIdle
    /\ CodecIdle
    /\ TreeIdle

\* self.store.lock().put_block(..)?; the guard is a temporary of that
\* statement: it is dropped at its end, on the `?` return as well, so nobody
\* holds the store mutex afterwards
Mut_store_guard_kept(t) == t
store_guard_after_put_block(t) == NoThread

InPut(t, w) == thr[t].w = w /\ thr[t].pc \in {"put_lock", "put_block", "put_wlock", "put_insert"}

\* SqliteStore::write is called
WriteCall(t) ==
    /\ thr[t].pc = "idle"
    /\ nStoreCalls < MaxStoreCalls
    /\ Cardinality({w \in WriterIds : writers[w].state = "unborn"})
         > Cardinality({u \in Threads : thr[u].pc \in {"write_lock", "write_pin"}})
    /\ thr' = [thr EXCEPT ![t].pc = "write_lock"]
    /\ nStoreCalls' = nStoreCalls + 1
    /\ UNCHANGED <<storeLock, blocks, pins, writers, okPuts, consumed, lastPut, lastGet>>
    /\ UNCHANGED notStore

\* self.lock()
WriteLock(t) ==
    /\ thr[t].pc = "write_lock"
    /\ storeLock = NoThread
    /\ storeLock' = t
    /\ thr' = [thr EXCEPT ![t].pc = "write_pin"]
    /\ UNCHANGED <<blocks, pins, writers, okPuts, consumed, lastPut, lastGet, nStoreCalls>>
    /\ UNCHANGED notStore

\* .temp_pin(); the guard is dropped; SqliteStoreWrite { store, pin, written }
WriteTempPin(t) ==
    /\ thr[t].pc = "write_pin"
    /\ LET w == CHOOSE x \in WriterIds :
                    /\ writers[x].state = "unborn"
                    /\ \A y \in WriterIds : writers[y].state = "unborn" => x <= y
       IN /\ pins' = temp_pin(pins, w)
          /\ writers' = [writers EXCEPT ![w] =
                            [state |-> "alive", pin |-> w, written |-> {}, wlock |-> NoThread]]
    /\ storeLock' = NoThread
    /\ thr' = [thr EXCEPT ![t] = IdleThread]
    /\ UNCHANGED <<blocks, okPuts, consumed, lastPut, lastGet, nStoreCalls>>
    /\ UNCHANGED notStore

\* SqliteStoreWrite::put is called: digest, cid and block are computed
PutCall(t) ==
    /\ thr[t].pc = "idle"
    /\ nStoreCalls < MaxStoreCalls
    /\ \E w \in WriterIds, data \in Data :
        /\ writers[w].state = "alive"
        /\ thr' = [thr EXCEPT ![t] = [pc |-> "put_lock", w |-> w, data |-> data,
                                      link |-> Sha256Digest_new(data)]]
    /\ nStoreCalls' = nStoreCalls + 1
    /\ UNCHANGED <<storeLock, blocks, pins, writers, okPuts, consumed, lastPut, lastGet>>
    /\ UNCHANGED notStore

\* self.store.lock()
PutLock(t) ==
    /\ thr[t].pc = "put_lock"
    /\ storeLock = NoThread
    /\ storeLock' = t
    /\ thr' = [thr EXCEPT ![t].pc = "put_block"]
    /\ UNCHANGED <<blocks, pins, writers, okPuts, consumed, lastPut, lastGet, nStoreCalls>>
    /\ UNCHANGED notStore

\* .put_block(&block, Some(&self.pin))?; the guard is dropped
PutBlock(t) ==
    /\ thr[t].pc = "put_block"
    /\ \E stored \in BOOLEAN :
        LET r == put_store(blocks, pins, writers[thr[t].w], Cid_from(thr[t].link), thr[t].data)
            next == put_after_store(stored)
        IN
        /\ blocks' = IF stored THEN r.blocks ELSE blocks
        /\ pins' = IF stored THEN r.pins ELSE pins
        /\ IF next = "put_failed"
           THEN /\ thr' = [thr EXCEPT ![t] = IdleThread]
                /\ lastPut' = [lastPut EXCEPT ![t] =
                                [done |-> TRUE, ok |-> FALSE, w |-> thr[t].w,
                                 link |-> thr[t].link]]
           ELSE /\ thr' = [thr EXCEPT ![t].pc = next]
                /\ lastPut' = lastPut
    /\ storeLock' = store_guard_after_put_block(t)
    /\ UNCHANGED <<writers, okPuts, consumed, lastGet, nStoreCalls>>
    /\ UNCHANGED notStore

\* self.written.lock().unwrap()
PutLockWritten(t) ==
    /\ thr[t].pc = "put_wlock"
    /\ writers[thr[t].w].wlock = NoThread
    /\ writers' = [writers EXCEPT ![thr[t].w].wlock = t]
    /\ thr' = [thr EXCEPT ![t].pc = "put_insert"]
    /\ UNCHANGED <<storeLock, blocks, pins, okPuts, consumed, lastPut, lastGet, nStoreCalls>>
    /\ UNCHANGED notStore

\* .insert(digest); the guard is dropped; Ok(digest)
PutInsert(t) ==
    /\ thr[t].pc = "put_insert"
    /\ writers' = [writers EXCEPT ![thr[t].w].written = @ \cup {thr[t].link},
                                  ![thr[t].w].wlock = NoThread]
    /\ okPuts' = [okPuts EXCEPT ![thr[t].w] = @ \cup {thr[t].link}]
    /\ lastPut' = [lastPut EXCEPT ![t] =
                     [done |-> TRUE, ok |-> TRUE, w |-> thr[t].w, link |-> thr[t].link]]
    /\ thr' = [thr EXCEPT ![t] = IdleThread]
    /\ UNCHANGED <<storeLock, blocks, pins, consumed, lastGet, nStoreCalls>>
    /\ UNCHANGED notStore

\* SqliteStore::get is called: the cid is computed
GetCall(t) ==
    /\ thr[t].pc = "idle"
    /\ nStoreCalls < MaxStoreCalls
    /\ \E link \in Digests :
        thr' = [thr EXCEPT ![t] = [pc |-> "get_lock", w |-> 0, data |-> <<>>, link |-> link]]
    /\ nStoreCalls' = nStoreCalls + 1
    /\ UNCHANGED <<storeLock, blocks, pins, writers, okPuts, consumed, lastPut, lastGet>>
    /\ UNCHANGED notStore

\* self.lock()
GetLock(t) ==
    /\ thr[t].pc = "get_lock"
    /\ storeLock = NoThread
    /\ storeLock' = t
    /\ thr' = [thr EXCEPT ![t].pc = "get_block"]
    /\ UNCHANGED <<blocks, pins, writers, okPuts, consumed, lastPut, lastGet, nStoreCalls>>
    /\ UNCHANGED notStore

\* .get_block(&cid)?; the guard is dropped; Ok(block.into()) or Err("block not found!")
GetBlock(t) ==
    /\ thr[t].pc = "get_block"
    /\ \E readOk \in BOOLEAN :
        LET cid == Cid_from(thr[t].link)
            read == IF readOk THEN Ok(get_block(blocks, cid)) ELSE Err("store error")
        IN lastGet' = [lastGet EXCEPT ![t] =
                         [done |-> TRUE, link |-> thr[t].link, result |-> get_result(read),
                          readOk |-> readOk,
                          held |-> is_some(blocks[cid]),
                          retained |-> \E w \in WriterIds :
                                          /\ writers[w].state = "alive"
                                          /\ thr[t].link \in okPuts[w]]]
    /\ storeLock' = NoThread
    /\ thr' = [thr EXCEPT ![t] = IdleThread]
    /\ UNCHANGED <<blocks, pins, writers, okPuts, consumed, lastPut, nStoreCalls>>
    /\ UNCHANGED notStore

\* SqliteStoreWrite::into_written(self): nobody borrows the writer; the written
\* set is returned, the store handle and the temp pin are dropped
IntoWritten(w) ==
    /\ writers[w].state = "alive"
    /\ \A t \in Threads : ~InPut(t, w)
    /\ consumed' = [consumed EXCEPT ![w] = Some(writers[w].written)]
    /\ writers' = [writers EXCEPT ![w].state = "consumed"]
    /\ pins' = drop_pin(pins, writers[w].pin)
    /\ UNCHANGED <<storeLock, blocks, thr, okPuts, lastPut, lastGet, nStoreCalls>>
    /\ UNCHANGED notStore

\* the writer goes out of scope
DropWriter(w) ==
    /\ writers[w].state = "alive"
    /\ \A t \in Threads : ~InPut(t, w)
    /\ writers' = [writers EXCEPT ![w].state = "dropped"]
    /\ pins' = drop_pin(pins, writers[w].pin)
    /\ UNCHANGED <<storeLock, blocks, thr, okPuts, consumed, lastPut, lastGet, nStoreCalls>>
    /\ UNCHANGED notStore

\* the block store collects the blocks that no alive temp pin holds
Gc ==
    /\ storeLock = NoThread
    /\ blocks' = gc(blocks, pins)
    /\ blocks' # blocks
    /\ UNCHANGED <<storeLock, pins, writers, thr, okPuts, consumed, lastPut, lastGet,
                   nStoreCalls>>
    /\ UNCHANGED notStore

StoreNext ==
    \/ \E t \in Threads :
        \/ WriteCall(t) \/ WriteLock(t) \/ WriteTempPin(t)
        \/ PutCall(t) \/ PutLock(t) \/ PutBlock(t) \/ PutLockWritten(t) \/ PutInsert(t)
        \/ GetCall(t) \/ GetLock(t) \/ GetBlock(t)
    \/ \E w \in WriterIds : IntoWritten(w) \/ DropWriter(w)
    \/ Gc

StoreSpec == StoreInit /\ [][StoreNext]_vars

(***************************************************************************)
(* Claims about SqliteStore / SqliteStoreWrite                             *)
(***************************************************************************)
\* a step of thread t inside a call of write, put or get
CallStep(t) ==
    \/ WriteLock(t) \/ WriteTempPin(t)
    \/ PutLock(t) \/ PutBlock(t) \/ PutLockWritten(t) \/ PutInsert(t)
    \/ GetLock(t) \/ GetBlock(t)

\* t is inside temp_pin, put_block or get_block of the BlockStore
OperatesOnBlockStore(t) == thr[t].pc \in {"write_pin", "put_block", "get_block"}

\* t is about to acquire, or holds, the written-set mutex of its writer
AtWritten(t) == thr[t].pc \in {"put_wlock", "put_insert"}

\* t waits for a mutex
AtLock(t) == thr[t].pc \in {"write_lock", "put_lock", "get_lock", "put_wlock"}

HoldsWritten(t) == \E w \in WriterIds : writers[w].state # "unborn" /\ writers[w].wlock = t

\* C11: put, get and write calls issued concurrently are serialized by the
\* store's mutex: a thread operates on the BlockStore only while it holds the
\* store mutex, so at most one does at any time; put does not hold the store
\* mutex while it acquires or holds the written-set mutex (nor the other way
\* round); whoever holds a mutex can take its next step without waiting, and
\* whenever a call is in progress some thread inside a call can step: no
\* interleaving deadlocks.
C11_SerializedNoDeadlock ==
    /\ \A t \in Threads :
          /\ OperatesOnBlockStore(t) <=> storeLock = t
          /\ AtWritten(t) => storeLock # t
          /\ AtLock(t) => storeLock # t /\ ~HoldsWritten(t)
          /\ HoldsWritten(t) <=> thr[t].pc = "put_insert"
          /\ (storeLock = t \/ HoldsWritten(t)) => ENABLED CallStep(t)
    /\ Cardinality({t \in Threads : OperatesOnBlockStore(t)}) <= 1
    /\ (\E t \in Threads : thr[t].pc # "idle") => ENABLED (\E t \in Threads : CallStep(t))

\* a put is inside put_block under the store mutex while another thread waits
\* for that mutex in get
C11_Witness ==
    \E t, u \in Threads :
        /\ thr[t].pc = "put_block"
        /\ storeLock = t
        /\ thr[u].pc = "get_lock"

\* the block of the model that hashes to a link
DataOf(link) == CHOOSE d \in Data \cup {NeverPut} : Sha256Digest_new(d) = link

\* C5: the set returned by into_written is exactly the set of content hashes of
\* the data for which put returned Ok: every successful put stores the block
\* under its content hash with the writer's temp pin and adds its link to the
\* written set; a put whose store write fails adds nothing to the written set.
C5_WrittenIsOkPuts ==
    \A w \in WriterIds :
        /\ is_some(consumed[w]) => consumed[w].val = okPuts[w]
        /\ writers[w].written = okPuts[w]
        /\ writers[w].state = "alive" =>
            \A l \in okPuts[w] :
                /\ Cid_from(l) \in pins[writers[w].pin].cids
                /\ is_some(blocks[Cid_from(l)])
                /\ Sha256Digest_new(blocks[Cid_from(l)].val) = l

\* a writer consumed after one put that returned Ok and one whose store write failed
C5_Witness ==
    \E w \in WriterIds, t \in Threads :
        /\ is_some(consumed[w])
        /\ Cardinality(consumed[w].val) = 1
        /\ lastPut[t].done /\ ~lastPut[t].ok /\ lastPut[t].w = w
        /\ lastPut[t].link \notin consumed[w].val

C1_RoundTrip ==
    (origin = "serialized" /\ cpc = "done") =>
        /\ decoded.ok
        /\ Len(decoded.val) = Len(items)
        /\ \A i \in 1..Len(items) :
            /\ decoded.val[i] = items[i]
            /\ is_none(items[i].cid) => decoded.val[i].cid = None

\* a round trip of a purged branch followed by a leaf that has a cid
C1_Witness ==
    /\ origin = "serialized" /\ cpc = "done"
    /\ Len(items) = MaxItems
    /\ items[1].kind = "Branch" /\ is_none(items[1].cid)
    /\ items[MaxItems].kind = "Leaf" /\ is_some(items[MaxItems].cid)
    /\ decoded.ok

BranchFieldsPresent(r) ==
    Cardinality({f \in OptionFields : is_some(r[f])})

\* C2 (as stated): a decoded record with count, level and key_bytes all present
\* becomes a BranchIndex, with all three absent a LeafIndex, and a record with
\* one or two of the three present is rejected with a format error.
C2_PartialRecordRejected ==
    (origin = "foreign" /\ cpc = "done" /\ foreign.second.k = "frame") =>
        LET recs == foreign.second.recs IN
        IF \E i \in 1..Len(recs) : BranchFieldsPresent(recs[i]) \in {1, 2}
        THEN ~decoded.ok
        ELSE /\ decoded.ok
             /\ Len(decoded.val) = Len(recs)
             /\ \A i \in 1..Len(recs) :
                 decoded.val[i].kind =
                     IF BranchFieldsPresent(recs[i]) = 3 THEN "Branch" ELSE "Leaf"

\* the CIDs of the children that have one, in child order
PresentCids(its) ==
    LET present == SelectSeq(its, LAMBDA x : is_some(x.cid)) IN
    [i \in 1..Len(present) |-> present[i].cid.val]

\* the records inside a block, read back from the wire with the block's own nonce
WireRecords(k, b) ==
    LET v == from_slice_pair(b).val.value.v IN
    from_reader_records(
        zstd_decode(apply_keystream(k, SubSeq(v, 1, NonceLen),
                                    SubSeq(v, NonceLen + 1, Len(v)))).val).val

\* number of records among the first i that are not purged
UnpurgedUpTo(recs, i) == Cardinality({j \in 1..i : ~recs[j].purged})

\* C3: the outer CID list written by serialize_compressed holds exactly the CIDs
\* of the children whose cid is present, in child order, as many as there are
\* records written with purged = false; deserialize_compressed gives the k-th
\* record with purged = false the k-th CID of the list and every record with
\* purged = true the cid None.
C3_OuterCids ==
    (origin = "serialized" /\ cpc \in {"block", "done"}) =>
        LET outer == from_slice_pair(block)
            recs == WireRecords(key, block)
        IN
        /\ outer.ok
        /\ outer.val.cids = PresentCids(items)
        /\ Len(recs) = Len(items)
        /\ Len(outer.val.cids) = UnpurgedUpTo(recs, Len(recs))
        /\ cpc = "done" =>
            /\ decoded.ok
            /\ Len(decoded.val) = Len(recs)
            /\ \A i \in 1..Len(recs) :
                decoded.val[i].cid =
                    IF recs[i].purged THEN None
                    ELSE Some(outer.val.cids[UnpurgedUpTo(recs, i)])

\* a block whose first child is purged and whose last child is not, read back
C3_Witness ==
    /\ origin = "serialized" /\ cpc = "done"
    /\ Len(items) = MaxItems
    /\ is_none(items[1].cid)
    /\ is_some(items[MaxItems].cid)
    /\ Len(from_slice_pair(block).val.cids) >= 1

SecondIsBytes ==
    \/ origin = "serialized"
    \/ origin = "foreign" /\ foreign.second.k \in {"frame", "nonce_prefix"}

\* length of the byte string in the second element of the outer pair
SecondLen ==
    IF origin = "foreign" /\ foreign.second.k = "nonce_prefix" THEN foreign.second.n
    ELSE Len(from_slice_pair(block).val.value.v)

\* C4: deserialize_compressed returns an error and no index vector when the
\* second element of the outer pair is not a byte string (format mismatch) or is
\* a byte string shorter than 24 bytes (nonce missing); only a byte string of at
\* least 24 bytes is split into nonce and cipher text and processed further.
C4_OuterPairErrors ==
    (cpc = "done") =>
        /\ ~SecondIsBytes =>
            decoded = Err("expected a byte array containing zstd compressed cbor")
        /\ (SecondIsBytes /\ SecondLen < 24) => decoded = Err("nonce missing")
        /\ (SecondIsBytes /\ SecondLen >= 24) =>
            /\ decoded = deserialize_bytes(key, from_slice_pair(block).val.cids,
                                           from_slice_pair(block).val.value.v)
            /\ ~decoded.ok =>
                decoded.err \notin {"nonce missing",
                                    "expected a byte array containing zstd compressed cbor"}
        /\ decoded.ok => (SecondIsBytes /\ SecondLen >= 24)

\* a byte string one byte short of a nonce is refused
C4_Witness ==
    /\ cpc = "done"
    /\ origin = "foreign"
    /\ foreign.second.k = "nonce_prefix"
    /\ foreign.second.n = 23
    /\ decoded = Err("nonce missing")

(***************************************************************************)
(* Claims about CompactSeq / SimpleCompactSeq                              *)
(***************************************************************************)
AllGetsSome(self) ==
    \A i \in 0..(SimpleCompactSeq_count(self) - 1) : is_some(SimpleCompactSeq_get(self, i))

\* C9 (as stated): every CompactSeq value obtained from empty, single or new
\* followed by push and extend calls has count() >= 1 and get(i) is Some for
\* every i < count(); new on an empty iterator returns an error and no value.
C9_CountAtLeastOne ==
    /\ csState = "live" =>
        /\ SimpleCompactSeq_count(cs) >= 1
        /\ AllGetsSome(cs)
    /\ (ctor = "new" /\ Len(supplied) = 0) => csState = "error"

\* left fold of get(0) .. get(count - 1) under combine, read through the trait
RECURSIVE FoldGets(_, _, _)
FoldGets(self, i, acc) ==
    IF i >= SimpleCompactSeq_count(self) THEN acc
    ELSE FoldGets(self, i + 1, combine(acc, SimpleCompactSeq_get(self, i).val))

\* fold of a non-empty list of items, bracketed to the right
RECURSIVE FoldRight(_)
FoldRight(xs) ==
    IF Len(xs) = 1 THEN xs[1] ELSE combine(Head(xs), FoldRight(Tail(xs)))

\* C10: for a SimpleCompactSeq started with single(x0): push(x) raises count()
\* by exactly 1 and makes x the last element; extend(x) keeps count() and all
\* elements but the last and replaces the last element e by combine(e, x);
\* summarize() equals the left fold of get(0)..get(count-1), which equals the
\* fold of all supplied items in call order.
C10_PushExtendSummarize ==
    (ctor = "single") =>
        LET n == SimpleCompactSeq_count(cs)
            b == lastCall.before
            m == SimpleCompactSeq_count(b)
        IN
        /\ csState = "live"
        /\ lastCall.op = "push" =>
            /\ n = m + 1
            /\ SimpleCompactSeq_get(cs, n - 1) = Some(lastCall.item)
        /\ lastCall.op = "extend" =>
            /\ n = m
            /\ \A i \in 0..(n - 2) : SimpleCompactSeq_get(cs, i) = SimpleCompactSeq_get(b, i)
            /\ SimpleCompactSeq_get(cs, n - 1)
                 = Some(combine(SimpleCompactSeq_get(b, m - 1).val, lastCall.item))
        /\ SimpleCompactSeq_summarize(cs)
             = FoldGets(cs, 1, SimpleCompactSeq_get(cs, 0).val)
        /\ SimpleCompactSeq_summarize(cs) = FoldRight(supplied)

\* a sequence started with single, pushed to and then extended
C10_Witness ==
    /\ ctor = "single"
    /\ lastCall.op = "extend"
    /\ SimpleCompactSeq_count(cs) >= 2
    /\ Len(supplied) >= 4

(***************************************************************************)
(* Forest: the tree a StreamBuilder grows and the traversals that read it  *)
(* through an OpsCountingStore.  Blocks hold values (leaf) or the children *)
(* indices (branch); sealing is by count thresholds of Config.             *)
(***************************************************************************)
\* Index accessors
Index_data(ix) == IF ix.kind = "Leaf" THEN ix.keys ELSE ix.summaries
Index_cid(ix) == ix.cid
Index_count(ix) == IF ix.kind = "Leaf" THEN SimpleCompactSeq_count(ix.keys) ELSE ix.count
Index_sealed(ix) == ix.sealed
Index_level(ix) == IF ix.kind = "Leaf" THEN 0 ELSE ix.level
Index_value_bytes(ix) == ix.value_bytes
Index_key_bytes(ix) == IF ix.kind = "Leaf" THEN 0 ELSE ix.key_bytes

\* the i-th event of the stream: (Key::single(i, i, ..), i)
Event(i) == [key |-> <<i>>, value |-> i]

LeafBlock(values) == [kind |-> "Leaf", values |-> values]
BranchBlock(children) == [kind |-> "Branch", children |-> children]

\* the link of a block: level, first offset and count determine the bytes of
\* a block of an append-only stream, and so its content hash
LinkOf(level, off, count) == <<level, off, count>>

MemStore_put(st, link, blk) == (link :> blk) @@ st
MemStore_get(st, link) ==
    IF link \in DOMAIN st THEN Ok(st[link]) ELSE Err("block not found")

\* OpsCountingStore::get: count the read, then ask the inner store
Mut_get_uncounted(st, rd, link) == [reads |-> rd, block |-> MemStore_get(st, link)]
OpsCountingStore_get(st, rd, link) ==
    [reads |-> rd + 1, block |-> MemStore_get(st, link)]

RECURSIVE sum_counts(_, _)
sum_counts(children, i) ==
    IF i = 0 THEN 0 ELSE sum_counts(children, i - 1) + Index_count(children[i])

RECURSIVE sum_value_bytes(_, _)
sum_value_bytes(children, i) ==
    IF i = 0 THEN 0
    ELSE sum_value_bytes(children, i - 1) + Index_value_bytes(children[i])

\* offset of child i of a branch that starts at off
child_offset(children, off, i) == off + sum_counts(children, i - 1)

\* write a branch over the given children and return its index
persist_branch(st, level, off, children) ==
    LET count == sum_counts(children, Len(children))
        link == LinkOf(level, off, count)
        sealed == /\ Len(children) >= MaxBranchCount
                  /\ Index_sealed(children[Len(children)])
        summaries == [i \in 1..Len(children) |->
                        SimpleCompactSeq_summarize(Index_data(children[i]))]
    IN  [store |-> MemStore_put(st, link, BranchBlock(children)),
         index |-> BranchIndex(count, level, sealed, Some(link), summaries,
                               sum_value_bytes(children, Len(children)),
                               Len(children))]

\* write a leaf and return its index
persist_leaf(st, off, keys, values) ==
    LET link == LinkOf(0, off, Len(values))
    IN  [store |-> MemStore_put(st, link, LeafBlock(values)),
         index |-> LeafIndex(SimpleCompactSeq_count(keys) >= MaxLeafCount,
                             Some(link), keys, Len(values))]

\* a fresh node of the given level holding one event
RECURSIVE single_node(_, _, _, _)
single_node(st, level, ev, off) ==
    IF level = 0
    THEN persist_leaf(st, off, SimpleCompactSeq_single(ev.key), <<ev.value>>)
    ELSE LET c == single_node(st, level - 1, ev, off)
         IN  persist_branch(c.store, level, off, <<c.index>>)

\* add one event to an unsealed node that starts at off
RECURSIVE extend_node(_, _, _, _)
extend_node(st, ix, ev, off) ==
    IF ix.kind = "Leaf"
    THEN persist_leaf(st, off, SimpleCompactSeq_push(ix.keys, ev.key),
                      Append(st[ix.cid.val].values, ev.value))
    ELSE LET children == st[ix.cid.val].children
             n == Len(children)
             last == children[n]
         IN  IF ~Index_sealed(last)
             THEN LET r == extend_node(st, last, ev, child_offset(children, off, n))
                  IN  persist_branch(r.store, ix.level, off,
                                     [children EXCEPT ![n] = r.index])
             ELSE LET r == single_node(st, ix.level - 1, ev, off + ix.count)
                  IN  persist_branch(r.store, ix.level, off, Append(children, r.index))

\* add one event to a builder whose root covers cnt events
extend_root(st, rt, ev, cnt) ==
    IF is_none(rt) THEN single_node(st, 0, ev, 0)
    ELSE IF Index_sealed(rt.val)
    THEN LET r == single_node(st, Index_level(rt.val), ev, cnt)
         IN  persist_branch(r.store, Index_level(rt.val) + 1, 0, <<rt.val, r.index>>)
    ELSE extend_node(st, rt.val, ev, 0)

(***************************************************************************)
(* Queries and the traversal of iter_filtered / collect                    *)
(***************************************************************************)
AllQuery == [t |-> "AllQuery", a |-> 0, b |-> 0]
OffsetRangeQuery(a, b) == [t |-> "OffsetRangeQuery", a |-> a, b |-> b]
CollectLabel == [t |-> "collect", a |-> 0, b |-> 0]

\* the half-open ranges [a, b) and [o, e) have no offset in common
is_disjoint(a, b, o, e) == a >= b \/ o >= e \/ b <= o \/ e <= a

\* one bit per child of a branch that starts at off
intersects_summary(q, off, children) ==
    [i \in 1..Len(children) |->
        \/ q.t = "AllQuery"
        \/ ~is_disjoint(q.a, q.b, child_offset(children, off, i),
                        child_offset(children, off, i) + Index_count(children[i]))]

\* one bit per key of a leaf that starts at off
intersects_keys(q, off, keys) ==
    [i \in 1..SimpleCompactSeq_count(keys) |->
        q.t = "AllQuery" \/ (q.a <= off + i - 1 /\ off + i - 1 < q.b)]

Item(off, k, v) == [offset |-> off, key |-> k, value |-> v]

\* (offset + i, keys.get(i), values.get(i)) for the set bits, in order
RECURSIVE emit(_, _, _, _, _, _)
emit(bits, off, keys, values, i, out) ==
    IF i >= Len(bits) THEN out
    ELSE emit(bits, off, keys, values, i + 1,
              IF bits[i + 1]
              THEN Append(out, Item(off + i, SimpleCompactSeq_get(keys, i).val,
                                    values[i + 1]))
              ELSE out)

NodeAt(ix, off) == [level |-> Index_level(ix), offset |-> off, count |-> Index_count(ix)]

NoAcc(rd) == [reads |-> rd, items |-> <<>>, fetched |-> <<>>, failed |-> FALSE]

\* load a node (branch cache of capacity 0: every load is a store get)
load(st, ix, off, acc) ==
    LET g == OpsCountingStore_get(st, acc.reads, Index_cid(ix).val)
    IN  [acc |-> [acc EXCEPT !.reads = g.reads,
                             !.fetched = Append(@, NodeAt(ix, off)),
                             !.failed = @ \/ ~g.block.ok],
         block |-> g.block]

\* depth-first, left-to-right; the offset advances over skipped children too
RECURSIVE traverse(_, _, _, _, _)
RECURSIVE traverse_children(_, _, _, _, _, _, _)
traverse(st, q, ix, off, acc) ==
    LET l == load(st, ix, off, acc)
    IN  IF ~l.block.ok THEN l.acc
        ELSE IF ix.kind = "Leaf"
        THEN [l.acc EXCEPT !.items =
                emit(intersects_keys(q, off, ix.keys), off, ix.keys,
                     l.block.val.values, 0, @)]
        ELSE traverse_children(st, q, l.block.val.children,
                               intersects_summary(q, off, l.block.val.children),
                               1, off, l.acc)
traverse_children(st, q, children, bits, i, off, acc) ==
    IF i > Len(children) THEN acc
    ELSE traverse_children(st, q, children, bits, i + 1,
                           off + Index_count(children[i]),
                           IF bits[i] THEN traverse(st, q, children[i], off, acc)
                           ELSE acc)

iter_filtered(st, rd, rt, q) ==
    IF is_none(rt) THEN NoAcc(rd) ELSE traverse(st, q, rt.val, 0, NoAcc(rd))

\* collect: the full enumeration, no query involved
RECURSIVE collect_node(_, _, _, _)
RECURSIVE collect_children(_, _, _, _, _)
collect_node(st, ix, off, acc) ==
    LET l == load(st, ix, off, acc)
    IN  IF ~l.block.ok THEN l.acc
        ELSE IF ix.kind = "Leaf"
        THEN [l.acc EXCEPT !.items =
                @ \o [i \in 1..Len(l.block.val.values) |->
                        Item(off + i - 1, SimpleCompactSeq_get(ix.keys, i - 1).val,
                             l.block.val.values[i])]]
        ELSE collect_children(st, l.block.val.children, 1, off, l.acc)
collect_children(st, children, i, off, acc) ==
    IF i > Len(children) THEN acc
    ELSE collect_children(st, children, i + 1, off + Index_count(children[i]),
                          collect_node(st, children[i], off, acc))

collect(st, rd, rt) ==
    IF is_none(rt) THEN NoAcc(rd) ELSE collect_node(st, rt.val, 0, NoAcc(rd))

(***************************************************************************)
(* State machine of ops_count_1: extend a builder, then read the snapshot  *)
(***************************************************************************)
Queries ==
    {AllQuery} \cup
    UNION {{OffsetRangeQuery(a, b) : b \in a..(MaxEvents + 1)} : a \in 0..(MaxEvents + 1)}

\* what test_ops_count returns: the items and dr = reads() - r0
Measured(q, r0, acc) ==
    [q |-> q, items |-> acc.items, gets |-> acc.reads - r0, fetched |-> acc.fetched]

TreeInit ==
    /\ TreeIdle
    /\ SeqIdle
    /\ CodecIdle
    /\ StoreIdle

\* txn.extend(&mut builder, [event]); as in the test, the builder is extended
\* before the snapshot is read
TxnExtend ==
    /\ Len(events) < MaxEvents
    /\ lastQuery = NoQuery
    /\ LET ev == Event(Len(events))
           r == extend_root(mstore, root, ev, Len(events))
       IN  /\ events' = Append(events, ev)
           /\ mstore' = r.store
           /\ root' = Some(r.index)
    /\ UNCHANGED <<reads, lastQuery, prevQuery>>
    /\ UNCHANGED notTree

\* txn.collect(&tree); two measurements are kept per snapshot
TxnCollect ==
    /\ prevQuery = NoQuery
    /\ LET acc == collect(mstore, reads, root)
       IN  /\ reads' = acc.reads
           /\ lastQuery' = Measured(CollectLabel, reads, acc)
    /\ prevQuery' = lastQuery
    /\ UNCHANGED <<events, root, mstore>>
    /\ UNCHANGED notTree

\* test_ops_count(.., &txn, &tree, query)
TestOpsCount(q) ==
    /\ prevQuery = NoQuery
    /\ LET acc == iter_filtered(mstore, reads, root, q)
       IN  /\ reads' = acc.reads
           /\ lastQuery' = Measured(q, reads, acc)
    /\ prevQuery' = lastQuery
    /\ UNCHANGED <<events, root, mstore>>
    /\ UNCHANGED notTree

TreeNext ==
    \/ TxnExtend
    \/ TxnCollect
    \/ \E q \in Queries : TestOpsCount(q)

TreeSpec == TreeInit /\ [][TreeNext]_vars

(***************************************************************************)
(* Claims about iter_filtered / collect                                    *)
(***************************************************************************)
\* the measurements taken on the current snapshot
Measurements == {lastQuery, prevQuery} \ {NoQuery}

IsRange(m) == m.q.t = "OffsetRangeQuery"
IsAll(m) == m.q.t = "AllQuery"
IsCollect(m) == m.q.t = "collect"

Min2(x, y) == IF x <= y THEN x ELSE y

\* the event extended at offset o, as the read path should report it
EventItem(o) == Item(o, events[o + 1].key, events[o + 1].value)

\* the events a measurement should have yielded, from the extend history
ExpectedItems(q) ==
    IF q.t = "OffsetRangeQuery"
    THEN LET hi == Min2(q.b, Len(events))
         IN  IF q.a <= hi THEN [i \in 1..(hi - q.a) |-> EventItem(q.a + i - 1)]
             ELSE <<>>
    ELSE [i \in 1..Len(events) |-> EventItem(i - 1)]

\* C6: on a tree built by extending a builder with n events, AllQuery yields
\* the same items in the same order as collect, namely all n events in extend
\* order with offsets 0..n-1, and OffsetRangeQuery(a..b) yields exactly the
\* events with offsets in [a, b), in offset order: min(b, n) - a of them when
\* a <= min(b, n).
C6_QuerySoundness ==
    /\ \A m \in Measurements :
          /\ m.items = ExpectedItems(m.q)
          /\ ~IsRange(m) => Len(m.items) = Len(events)
          /\ IsRange(m) /\ m.q.a <= Min2(m.q.b, Len(events))
                => Len(m.items) = Min2(m.q.b, Len(events)) - m.q.a
          /\ IsRange(m) =>
                /\ \A i \in 1..Len(m.items) :
                      m.q.a <= m.items[i].offset /\ m.items[i].offset < m.q.b
                /\ \A i \in 1..(Len(m.items) - 1) :
                      m.items[i].offset < m.items[i + 1].offset
                /\ \A o \in 0..(Len(events) - 1) :
                      m.q.a <= o /\ o < m.q.b
                        => \E i \in 1..Len(m.items) : m.items[i] = EventItem(o)
    /\ \A m1, m2 \in Measurements :
          IsCollect(m1) /\ IsAll(m2) => m1.items = m2.items

C6_Witness ==
    /\ Len(events) >= 5
    /\ IsCollect(prevQuery)
    /\ IsRange(lastQuery)
    /\ lastQuery.q.a = 1
    /\ lastQuery.q.b = 4
    /\ Len(lastQuery.items) = 3
    /\ Len(prevQuery.items) = Len(events)

\* the nodes of the snapshot a traversal has to load: the root, and below a
\* loaded branch the children whose bit the query set
RECURSIVE wanted(_, _, _)
wanted(q, ix, off) ==
    IF ix.kind = "Leaf" THEN {NodeAt(ix, off)}
    ELSE LET children == mstore[ix.cid.val].children
             bits == IF q.t = "collect" THEN [i \in 1..Len(children) |-> TRUE]
                     ELSE intersects_summary(q, off, children)
         IN  {NodeAt(ix, off)} \cup
             UNION {wanted(q, children[i], child_offset(children, off, i)) :
                      i \in {j \in 1..Len(children) : bits[j]}}

Wanted(q) == IF is_none(root) THEN {} ELSE wanted(q, root.val, 0)

FetchedSet(m) == {m.fetched[i] : i \in 1..Len(m.fetched)}

IsRootNode(f) == is_some(root) /\ f = NodeAt(root.val, 0)

Overlaps(m, f) == ~is_disjoint(m.q.a, m.q.b, f.offset, f.offset + f.count)

Narrows(m1, m2) ==
    /\ IsRange(m1)
    /\ IsRange(m2)
    /\ m2.q.a <= m1.q.a
    /\ m1.q.b <= m2.q.b

\* one store get per node the traversal has to load, and no other get
GetsPerSetBit ==
    \A m \in Measurements :
        /\ m.gets = Len(m.fetched)
        /\ FetchedSet(m) = Wanted(m.q)
        /\ Cardinality(FetchedSet(m)) = Len(m.fetched)

\* collect = AllQuery in gets; a range never costs more than AllQuery, nor
\* more than a wider range
GetsCompared ==
    \A m1, m2 \in Measurements :
        /\ IsCollect(m1) /\ IsAll(m2) => m1.gets = m2.gets
        /\ IsRange(m1) /\ (IsAll(m2) \/ IsCollect(m2)) => m1.gets <= m2.gets
        /\ Narrows(m1, m2) => m1.gets <= m2.gets

=============================================================================
